---------------------------- MODULE Spec2Model ----------------------------
(***************************************************************************)
(* A model of two pieces of the repository:                                *)
(*   - the caption_search research action (captionSearchAction.execute),   *)
(*   - the OpenAI provider adapter (OpenAILLM.streamText, generateObject,  *)
(*     streamObject).                                                      *)
(* Strings are modelled as sequences of pieces (characters or fixed        *)
(* literals), so that concatenation is \o and a character-wise replace is  *)
(* computed, not assumed.                                                  *)
(***************************************************************************)
EXTENDS Integers, Sequences, FiniteSets, TLC

VARIABLES
    \* ---- caption_search ----
    ragURL,      \* what getCloudflareRAGURL() returns: "" or a base URL
    blockKind,   \* what session.getBlock returns: "research", "other", "none"
    subSteps,    \* researchBlock.data.subSteps, one array shared by all calls
    patches,     \* the updateBlock calls made so far, in order
    uuid,        \* crypto.randomUUID, as a counter of the ids handed out
    pc,          \* per call: "start", "fetch", "json", "done"
    remote,      \* per call: what the remote call delivered (the input)
    ret,         \* per call: what execute returned (or that it raised)
    \* ---- OpenAILLM.streamText ----
    consumed,           \* the upstream chunks consumed so far, in order
    recievedToolCalls,  \* the accumulator array of streamText
    yielded,            \* the updates streamText has yielded, in order
    stPc,               \* "idle", "iterating", "returned" or "thrown"
    streamOpen,         \* whether the upstream stream may still deliver a chunk
    \* ---- OpenAILLM.generateObject ----
    goConfig,     \* config.model and config.baseURL
    goSchema,     \* input.schema: the keys the object must have
    goMessages,   \* input.messages, as the roles of the messages
    goRequest,    \* the request sent to chat.completions.create
    goResponse,   \* the completion response
    goOutcome,    \* what generateObject did: pending, a value, or an error
    \* ---- OpenAILLM.streamObject ----
    soConsumed,   \* the upstream events consumed so far, in order
    recievedObj,  \* the accumulated text
    soYielded,    \* the values streamObject has yielded, in order
    soPc,         \* "idle", "iterating", "returned" or "thrown"
    soOpen        \* whether the upstream stream may still deliver an event

searchVars == <<ragURL, blockKind, subSteps, patches, uuid, pc, remote, ret>>
streamVars == <<consumed, recievedToolCalls, yielded, stPc, streamOpen>>
genVars    == <<goConfig, goSchema, goMessages, goRequest, goResponse, goOutcome>>
objVars    == <<soConsumed, recievedObj, soYielded, soPc, soOpen>>
vars == <<searchVars, streamVars, genVars, objVars>>

\* All sequences over S of length at most n.
SeqsUpTo(S, n) == UNION {[1..k -> S] : k \in 0..n}

(***************************************************************************)
(*                         caption_search execute                          *)
(***************************************************************************)

MaxHits    == 2   \* hits in one search response
MaxNameLen == 3   \* characters of a folderName
NCalls     == 2   \* overlapping execute calls on one block

Undefined == <<"undefined">>        \* JavaScript's undefined, where a string is expected
Raised    == [type |-> "raised"]    \* execute rejected: the error reached the caller
NoRet     == [type |-> "pending"]   \* execute has not returned yet

Chars       == {"a", "_"}
FolderNames == SeqsUpTo(Chars, MaxNameLen)
HitIds      == {"h1", "h2"}

\* CloudflareSearchResult, as far as execute reads it. A hit whose folderName is
\* missing is a response that lacks the expected shape.
Hits == [id : HitIds, content : {"c"}, folderName : FolderNames \cup {Undefined}]

\* What `await res.json()` can deliver.
Bodies(maxHits) ==
    {[kind |-> "unparseable"], [kind |-> "null"],
     [kind |-> "noResults"], [kind |-> "notArray"]}
    \cup [kind : {"object"}, results : SeqsUpTo(Hits, maxHits)]

\* What the remote call can deliver: the fetch rejects, the status is not ok,
\* or the status is ok and the body is read.
Remotes(maxHits) ==
    {[kind |-> "transport"], [kind |-> "status"]}
    \cup [kind : {"ok"}, body : Bodies(maxHits)]

NoRemote == [kind |-> "none"]

EmptyResult == [type |-> "search_results", results |-> <<>>]

\* String.prototype.replace with a non-global pattern: the first match only.
RECURSIVE ReplaceFirstUnderscore(_)
ReplaceFirstUnderscore(s) ==
    IF s = <<>> THEN <<>>
    ELSE IF Head(s) = "_" THEN <<" ">> \o Tail(s)
    ELSE <<Head(s)>> \o ReplaceFirstUnderscore(Tail(s))

\* r.folderName.replace(/_/g, ' ')
RECURSIVE ReplaceUnderscores(_)
ReplaceUnderscores(s) ==
    IF s = <<>> THEN <<>>
    ELSE <<IF Head(s) = "_" THEN " " ELSE Head(s)>> \o ReplaceUnderscores(Tail(s))

\* The callback of data.results.map: one hit to one Chunk.
ToChunk(r) ==
    [content |-> r.content,
     metadata |-> [title  |-> <<"CraftyPanda: ">> \o ReplaceUnderscores(r.folderName),
                   url    |-> <<"craftypanda://caption/", r.id>>,
                   source |-> "CraftyPanda Historical"]]

\* Whether `data.results.map(...)` throws a TypeError: data is null, results is
\* missing or no array, or some hit has no folderName to call replace on.
MapThrows(body) ==
    \/ body.kind \in {"null", "noResults", "notArray"}
    \/ /\ body.kind = "object"
       /\ \E i \in 1..Len(body.results) : body.results[i].folderName = Undefined

MapResults(body) == [i \in 1..Len(body.results) |-> ToChunk(body.results[i])]

\* Array.prototype.unshift: the entry is put first.
Unshift(arr, e) == <<e>> \o arr

\* Array.prototype.push
Push(arr, e) == Append(arr, e)

\* A patch that adds the entry instead of replacing the list.
AddPatch(value) == [op |-> "add", path |-> "/data/subSteps/-", value |-> value]

\* The patch handed to session.updateBlock after a push.
ReplacePatch(value) == [op |-> "replace", path |-> "/data/subSteps", value |-> value]

\* The catch block lets the error through.
CatchRethrow == Raised

\* catch (err) { ...; return { type: 'search_results', results: [] } }
CatchHandler == EmptyResult

\* input.query of call p
Query(p) == <<"query", p>>

\* Lines 53-82, up to the suspension at `await fetch`.
Start(p) ==
    /\ pc[p] = "start"
    /\ IF ragURL = ""
       THEN /\ pc' = [pc EXCEPT ![p] = "done"]
            /\ ret' = [ret EXCEPT ![p] = EmptyResult]
            /\ remote' = [remote EXCEPT ![p] = [kind |-> "unconfigured"]]
            /\ UNCHANGED <<subSteps, patches, uuid>>
       ELSE /\ pc' = [pc EXCEPT ![p] = "fetch"]
            /\ IF blockKind = "research"
               THEN LET e == [id |-> uuid, type |-> "searching", by |-> p,
                              searching |-> <<<<"CraftyPanda: ", Query(p)>>>>]
                        s == Push(subSteps, e)
                    IN /\ subSteps' = s
                       /\ patches' = Append(patches, ReplacePatch(s))
                       /\ uuid' = uuid + 1
               ELSE UNCHANGED <<subSteps, patches, uuid>>
            /\ UNCHANGED <<ret, remote>>
    /\ UNCHANGED <<ragURL, blockKind>>

\* `await fetch` settles: lines 82-93, up to the suspension at `await res.json()`.
FetchSettles(p, inputs) ==
    /\ pc[p] = "fetch"
    /\ \E r \in inputs :
          /\ remote' = [remote EXCEPT ![p] = r]
          /\ CASE r.kind = "transport" ->
                    /\ pc' = [pc EXCEPT ![p] = "done"]
                    /\ ret' = [ret EXCEPT ![p] = CatchHandler]
               [] r.kind = "status" ->
                    /\ pc' = [pc EXCEPT ![p] = "done"]
                    /\ ret' = [ret EXCEPT ![p] = EmptyResult]
               [] OTHER ->
                    /\ pc' = [pc EXCEPT ![p] = "json"]
                    /\ UNCHANGED ret
    /\ UNCHANGED <<ragURL, blockKind, subSteps, patches, uuid>>

\* `await res.json()` settles: lines 93-131.
JsonSettles(p) ==
    /\ pc[p] = "json"
    /\ pc' = [pc EXCEPT ![p] = "done"]
    /\ LET body == remote[p].body IN
       IF body.kind = "unparseable" \/ MapThrows(body)
       THEN /\ ret' = [ret EXCEPT ![p] = CatchHandler]
            /\ UNCHANGED <<subSteps, patches, uuid>>
       ELSE LET results == MapResults(body)
                e == [id |-> uuid, type |-> "search_results", by |-> p,
                      reading |-> results]
                s == Push(subSteps, e)
            IN /\ uuid' = uuid + 1   \* randomUUID is called in either case
               /\ IF blockKind = "research"
                  THEN /\ subSteps' = s
                       /\ patches' = Append(patches, ReplacePatch(s))
                  ELSE UNCHANGED <<subSteps, patches>>
               /\ ret' = [ret EXCEPT ![p] = [type |-> "search_results",
                                             results |-> results]]
    /\ UNCHANGED <<ragURL, blockKind, remote>>

(***************************************************************************)
(*                     partial-json's parse, on tokens                     *)
(***************************************************************************)

\* JSON text is a sequence of tokens: "{", "}", ",", and the members
\* "a:1" ("a":1) and "b:2" ("b":2). An object value is the set of its members.
Members    == {"a:1", "b:2"}
ParseError == {"MalformedJSON"}   \* parse threw
EmptyObj   == {}

FragA == <<"{", "a:1">>        \* {"a":1
FragB == <<",", "b:2", "}">>   \* ,"b":2}

\* parseObj after the opening brace: members are read up to the closing brace
\* or the end of the input; a member counts when it is followed by a comma, the
\* closing brace or the end of the input; anything else ends the object with
\* the members read so far. Text after the closing brace is not looked at.
RECURSIVE ParseMembers(_, _)
ParseMembers(t, obj) ==
    IF t = <<>> THEN obj
    ELSE IF Head(t) = "}" THEN obj
    ELSE IF Head(t) \notin Members THEN obj
    ELSE IF Len(t) = 1 THEN obj \cup {Head(t)}
    ELSE IF t[2] = "," THEN ParseMembers(Tail(Tail(t)), obj \cup {Head(t)})
    ELSE IF t[2] = "}" THEN obj \cup {Head(t)}
    ELSE obj

\* parse(text): throws unless the text begins a JSON value (here: an object).
Parse(t) ==
    IF t = <<>> THEN ParseError
    ELSE IF Head(t) = "{" THEN ParseMembers(Tail(t), EmptyObj)
    ELSE ParseError

(***************************************************************************)
(*                          OpenAILLM.streamText                           *)
(***************************************************************************)

MaxChunks == 2   \* upstream chunks of one stream

Null == "null"   \* finish_reason: null

Indexes   == {0, 1}
Fragments == {<<>>, FragA, FragB}

\* One entry of delta.tool_calls: its position index and its argument fragment.
\* It carries no id and no name, so the call's id is `tool_${index}`.
Deltas == [index : Indexes, arguments : Fragments]

ToolCallLists ==
    {<<>>} \cup {<<d>> : d \in Deltas} \cup {<<d, e>> : d \in Deltas, e \in Deltas}

\* An upstream chunk: with or without choices; choices[0] has a finish_reason
\* and a delta with tool_calls. (The delta's content goes into the update's
\* contentChunk as it is, and is left out.)
NoChoices == [choices |-> FALSE]
Chunks ==
    {NoChoices}
    \cup [choices : {TRUE}, finish_reason : {Null, "stop"}, tool_calls : ToolCallLists]

ToolId(index) == <<"tool_", index>>

\* recievedToolCalls[index], the array being 0-based; Undefined when there is
\* no such element.
Has(recv, index) == index + 1 <= Len(recv)

\* The text handed to parse: `arguments || '{}'`.
OrEmptyObject(text) == IF text = <<>> THEN <<"{", "}">> ELSE text

\* An entry of parsedToolCalls. `text` is not in the code's entry: it keeps the
\* text that was handed to parse, for the properties to speak about.
ParsedEntry(call, obj, text) == [id |-> call.id, arguments |-> obj, text |-> text]

\* The parse error is not caught: it leaves the loop and the generator.
ParseErrorEscapes(recv, index, parsed, text) ==
    [recv |-> recv, parsed |-> parsed, threw |-> TRUE]

\* Lines 218-223: the catch block pushes an entry with the empty object, for
\* the call the array holds at the index, and the loop goes on.
CatchParseError(recv, index, parsed, text) ==
    LET call == IF Has(recv, index) THEN recv[index + 1]
                ELSE [id |-> ToolId(index), arguments |-> <<>>]
    IN [recv |-> recv,
        parsed |-> Append(parsed, ParsedEntry(call, EmptyObj, text)),
        threw |-> FALSE]

\* Line 208: recievedToolCalls.push(call)
StoreNewCall(recv, index, call) == Append(recv, call)

\* Lines 201-223 for one tool-call delta: the accumulator array and the
\* parsedToolCalls of the chunk, before and after.
ProcessDelta(st, tc) ==
    LET recv == st.recv
        parsed == st.parsed
        index == tc.index
    IN IF ~Has(recv, index)
       THEN LET call == [id |-> ToolId(index), arguments |-> tc.arguments]
                recv2 == StoreNewCall(recv, index, call)
                text == OrEmptyObject(call.arguments)
            IN IF Parse(text) = ParseError
               THEN CatchParseError(recv2, index, parsed, text)
               ELSE [recv |-> recv2,
                     parsed |-> Append(parsed, ParsedEntry(call, Parse(text), text)),
                     threw |-> FALSE]
       ELSE LET existingCall == [recv[index + 1] EXCEPT
                                    !.arguments = @ \o tc.arguments]
                recv2 == [recv EXCEPT ![index + 1] = existingCall]
                text == OrEmptyObject(existingCall.arguments)
            IN IF Parse(text) = ParseError
               THEN CatchParseError(recv2, index, parsed, text)
               ELSE [recv |-> recv2,
                     parsed |-> Append(parsed,
                                       ParsedEntry(existingCall, Parse(text), text)),
                     threw |-> FALSE]

\* Lines 199-225: the loop over the chunk's tool-call deltas.
RECURSIVE ProcessDeltas(_, _)
ProcessDeltas(st, tcs) ==
    IF tcs = <<>> \/ st.threw THEN st
    ELSE ProcessDeltas(ProcessDelta(st, Head(tcs)), Tail(tcs))

\* done is decided locally: a chunk without tool-call deltas ends the text.
DoneWhenNoDelta(chunk) == chunk.tool_calls = <<>>

\* Line 230: done: chunk.choices[0].finish_reason !== null
Done(chunk) == chunk.finish_reason # Null

\* The generator returns after the update whose finish_reason is not null.
StopsAfterDone(update) == IF update.done THEN "returned" ELSE "iterating"

\* Lines 227-236: after the yield the loop goes on to the next chunk.
AfterYield(update) == "iterating"

\* One iteration of `for await (const chunk of stream)`: lines 194-236.
ConsumeChunk ==
    /\ stPc = "iterating"
    /\ streamOpen
    /\ Len(consumed) < MaxChunks
    /\ \E chunk \in Chunks :
          /\ consumed' = Append(consumed, chunk)
          /\ IF chunk.choices
             THEN LET st == ProcessDeltas([recv |-> recievedToolCalls,
                                           parsed |-> <<>>, threw |-> FALSE],
                                          chunk.tool_calls)
                      update == [toolCallChunk |-> st.parsed,
                                 done |-> Done(chunk),
                                 finishReason |-> chunk.finish_reason]
                  IN /\ recievedToolCalls' = st.recv
                     /\ IF st.threw
                        THEN /\ stPc' = "thrown"
                             /\ UNCHANGED yielded
                        ELSE /\ yielded' = Append(yielded, update)
                             /\ stPc' = AfterYield(update)
             ELSE UNCHANGED <<recievedToolCalls, yielded, stPc>>
    /\ UNCHANGED streamOpen

\* The upstream stream ends: the for-await loop and the generator finish.
StreamEnds ==
    /\ stPc = "iterating"
    /\ streamOpen
    /\ streamOpen' = FALSE
    /\ stPc' = "returned"
    /\ UNCHANGED <<consumed, recievedToolCalls, yielded>>

(***************************************************************************)
(*                         OpenAILLM.streamObject                          *)
(***************************************************************************)

MaxEvents == 3   \* upstream events of one response stream

Texts == {<<>>, FragA, FragB, FragA \o FragB}

\* An upstream event: an output_text.delta with its delta, an output_text.done
\* with the whole text, or an event of another type.
Events ==
    [type : {"response.output_text.delta"}, delta : Texts]
    \cup [type : {"response.output_text.done"}, text : Texts]
    \cup {[type |-> "response.created"]}

IsDelta(e) == e.type = "response.output_text.delta" /\ e.delta # <<>>
IsDone(e)  == e.type = "response.output_text.done" /\ e.text # <<>>

\* A parse failure on a delta ends the generator with an error.
DeltaParseFailureThrows(text) ==
    IF Parse(text) = ParseError
    THEN [pc |-> "thrown", values |-> <<>>]
    ELSE [pc |-> "iterating", values |-> <<[from |-> "delta", value |-> Parse(text)]>>]

\* Lines 343-348: try { yield parse(recievedObj) } catch { yield {} }
OnDelta(text) ==
    [pc |-> "iterating",
     values |-> <<[from |-> "delta",
                   value |-> IF Parse(text) = ParseError THEN EmptyObj
                             ELSE Parse(text)]>>]

\* Lines 350-354: try { yield parse(chunk.text) } catch { throw new Error(...) }
OnDone(text) ==
    IF Parse(text) = ParseError
    THEN [pc |-> "thrown", values |-> <<>>]
    ELSE [pc |-> "iterating", values |-> <<[from |-> "done", value |-> Parse(text)]>>]

\* One iteration of `for await (const chunk of stream)`: lines 339-356.
ConsumeEvent ==
    /\ soPc = "iterating"
    /\ soOpen
    /\ Len(soConsumed) < MaxEvents
    /\ \E e \in Events :
          /\ soConsumed' = Append(soConsumed, e)
          /\ IF IsDelta(e)
             THEN LET r == OnDelta(recievedObj \o e.delta)
                  IN /\ recievedObj' = recievedObj \o e.delta
                     /\ soYielded' = soYielded \o r.values
                     /\ soPc' = r.pc
             ELSE IF IsDone(e)
             THEN LET r == OnDone(e.text)
                  IN /\ soYielded' = soYielded \o r.values
                     /\ soPc' = r.pc
                     /\ UNCHANGED recievedObj
             ELSE UNCHANGED <<recievedObj, soYielded, soPc>>
    /\ UNCHANGED soOpen

\* The upstream stream ends: the for-await loop and the generator finish.
ObjectStreamEnds ==
    /\ soPc = "iterating"
    /\ soOpen
    /\ soOpen' = FALSE
    /\ soPc' = "returned"
    /\ UNCHANGED <<soConsumed, recievedObj, soYielded>>

(***************************************************************************)
(*                        OpenAILLM.generateObject                         *)
(***************************************************************************)

Keys == {"a:1", "b:2", "c:3"}

ModelNames == {"groq/llama", "openrouter/auto", "gpt-4o"}
BaseURLs   == {"none", "https://api.groq.com/openai/v1",
               "https://openrouter.ai/api/v1"}

\* config.baseURL?.includes('groq')
IncludesGroq(baseURL) == baseURL = "https://api.groq.com/openai/v1"

\* config.model?.startsWith(prefix)
StartsWith(model, prefix) ==
    \/ prefix = "groq/" /\ model = "groq/llama"
    \/ prefix = "openrouter/" /\ model = "openrouter/auto"

\* The heuristic without the openrouter/ prefix.
NeedsJsonObjectModeGroqOnly(config) ==
    \/ IncludesGroq(config.baseURL)
    \/ StartsWith(config.model, "groq/")

\* Lines 247-250
NeedsJsonObjectMode(config) ==
    \/ IncludesGroq(config.baseURL)
    \/ StartsWith(config.model, "groq/")
    \/ StartsWith(config.model, "openrouter/")

\* The message content of choices[0]: JSON text of an object, bare or inside a
\* ```json fence, or text that the repair and JSON.parse reject.
Contents ==
    [fenced : BOOLEAN, object : SUBSET Keys] \cup {[fenced |-> FALSE, garbage |-> TRUE]}

Responses == {[choices |-> FALSE]} \cup [choices : {TRUE}, content : Contents]

\* stripMarkdownCodeFence: the text between the fence markers, or the text itself.
StripMarkdownCodeFence(content) ==
    IF "object" \in DOMAIN content THEN [content EXCEPT !.fenced = FALSE] ELSE content

\* A zod object schema with the keys `schema`: success when every key is
\* there; the data keeps the schema's keys and drops the others.
SafeParse(schema, parsed) ==
    IF schema \subseteq parsed
    THEN [success |-> TRUE, data |-> parsed \cap schema]
    ELSE [success |-> FALSE]

GoError(msg) == [kind |-> "error", message |-> msg]
GoValue(v)   == [kind |-> "value", value |-> v]

\* Lines 286-314
GenerateObjectResult(config, schema, response) ==
    IF ~response.choices THEN GoError("No response from OpenAI")
    ELSE LET stripped == StripMarkdownCodeFence(response.content)
         IN IF "garbage" \in DOMAIN stripped
            THEN GoError("Error parsing response from OpenAI")
            ELSE LET parsed == stripped.object
                     result == SafeParse(schema, parsed)
                 IN IF NeedsJsonObjectMode(config)
                    THEN IF result.success THEN GoValue(result.data)
                         ELSE GoValue(parsed)
                    ELSE IF result.success THEN GoValue(result.data)
                         ELSE GoError("Error parsing response from OpenAI")

MessageLists == {<<>>, <<"user">>, <<"system", "user">>}

\* Lines 253-267: in json_object mode the schema goes into the system prompt,
\* appended to a leading system message or put first as a new one.
RequestMessages(config, messages) ==
    IF ~NeedsJsonObjectMode(config)
    THEN [k \in 1..Len(messages) |-> [role |-> messages[k], schemaPrompt |-> FALSE]]
    ELSE IF Len(messages) > 0 /\ messages[1] = "system"
    THEN [k \in 1..Len(messages) |-> [role |-> messages[k], schemaPrompt |-> k = 1]]
    ELSE <<[role |-> "system", schemaPrompt |-> TRUE]>>
         \o [k \in 1..Len(messages) |-> [role |-> messages[k], schemaPrompt |-> FALSE]]

\* Line 283
ResponseFormat(config) ==
    IF NeedsJsonObjectMode(config) THEN "json_object" ELSE "json_schema"

\* generateObject up to `await chat.completions.create`: lines 245-284.
SendRequest ==
    /\ goOutcome.kind = "called"
    /\ goRequest' = [messages |-> RequestMessages(goConfig, goMessages),
                     response_format |-> ResponseFormat(goConfig)]
    /\ goOutcome' = [kind |-> "awaiting"]
    /\ UNCHANGED <<goConfig, goSchema, goMessages, goResponse>>

\* The completion arrives: lines 286-314.
ResponseArrives ==
    /\ goOutcome.kind = "awaiting"
    /\ \E r \in Responses :
          /\ goResponse' = r
          /\ goOutcome' = GenerateObjectResult(goConfig, goSchema, r)
    /\ UNCHANGED <<goConfig, goSchema, goMessages, goRequest>>

(***************************************************************************)
(*                             Specifications                              *)
(***************************************************************************)

\* An entry the block holds before the calls.
Earlier == [id |-> 0, type |-> "earlier", by |-> 0]

SearchIdle ==
    /\ ragURL = "" /\ blockKind = "none"
    /\ subSteps = <<>> /\ patches = <<>> /\ uuid = 1
    /\ pc = <<>> /\ remote = <<>> /\ ret = <<>>

StreamIdle ==
    /\ consumed = <<>> /\ recievedToolCalls = <<>> /\ yielded = <<>>
    /\ stPc = "idle" /\ streamOpen = FALSE

ObjectIdle ==
    /\ soConsumed = <<>> /\ recievedObj = <<>> /\ soYielded = <<>>
    /\ soPc = "idle" /\ soOpen = FALSE

GenerateIdle ==
    /\ goConfig = [model |-> "gpt-4o", baseURL |-> "none"]
    /\ goSchema = {} /\ goMessages = <<>>
    /\ goRequest = [messages |-> <<>>, response_format |-> "none"]
    /\ goResponse = [choices |-> FALSE]
    /\ goOutcome = [kind |-> "idle"]

\* n calls of execute about to run against one session block.
InitCalls(n) ==
    /\ ragURL \in {"", "https://rag.example"}
    /\ blockKind \in {"research", "other", "none"}
    /\ subSteps \in IF blockKind = "research" THEN {<<>>, <<Earlier>>} ELSE {<<>>}
    /\ patches = <<>>
    /\ uuid = 1
    /\ pc = [p \in 1..n |-> "start"]
    /\ remote = [p \in 1..n |-> NoRemote]
    /\ ret = [p \in 1..n |-> NoRet]
    /\ StreamIdle /\ ObjectIdle /\ GenerateIdle

\* One call of execute, over every response of up to MaxHits hits.
InitSearch == InitCalls(1)

NextSearch ==
    \/ Start(1) /\ UNCHANGED <<streamVars, genVars, objVars>>
    \/ FetchSettles(1, Remotes(MaxHits)) /\ UNCHANGED <<streamVars, genVars, objVars>>
    \/ JsonSettles(1) /\ UNCHANGED <<streamVars, genVars, objVars>>

SpecSearch == InitSearch /\ [][NextSearch]_vars

\* NCalls overlapping calls of execute on the same block, over responses of at
\* most one hit.
OverlapHit == [id |-> "h1", content |-> "c", folderName |-> <<"a", "_">>]
OverlapRemotes ==
    {[kind |-> "transport"], [kind |-> "status"],
     [kind |-> "ok", body |-> [kind |-> "unparseable"]],
     [kind |-> "ok", body |-> [kind |-> "object", results |-> <<>>]],
     [kind |-> "ok", body |-> [kind |-> "object", results |-> <<OverlapHit>>]]}

InitOverlap == InitCalls(NCalls)

NextOverlap ==
    \/ \E p \in 1..NCalls : Start(p) /\ UNCHANGED <<streamVars, genVars, objVars>>
    \/ \E p \in 1..NCalls :
          FetchSettles(p, OverlapRemotes) /\ UNCHANGED <<streamVars, genVars, objVars>>
    \/ \E p \in 1..NCalls : JsonSettles(p) /\ UNCHANGED <<streamVars, genVars, objVars>>

SpecOverlap == InitOverlap /\ [][NextOverlap]_vars

\* One call of streamText or one call of streamObject.
InitStreams ==
    /\ SearchIdle /\ GenerateIdle
    /\ \/ /\ consumed = <<>> /\ recievedToolCalls = <<>> /\ yielded = <<>>
          /\ stPc = "iterating" /\ streamOpen = TRUE
          /\ ObjectIdle
       \/ /\ soConsumed = <<>> /\ recievedObj = <<>> /\ soYielded = <<>>
          /\ soPc = "iterating" /\ soOpen = TRUE
          /\ StreamIdle

NextStreams ==
    \/ ConsumeChunk /\ UNCHANGED <<searchVars, genVars, objVars>>
    \/ StreamEnds /\ UNCHANGED <<searchVars, genVars, objVars>>
    \/ ConsumeEvent /\ UNCHANGED <<searchVars, genVars, streamVars>>
    \/ ObjectStreamEnds /\ UNCHANGED <<searchVars, genVars, streamVars>>

SpecStreams == InitStreams /\ [][NextStreams]_vars

\* One call of generateObject.
InitGenerate ==
    /\ SearchIdle /\ StreamIdle /\ ObjectIdle
    /\ goConfig \in [model : ModelNames, baseURL : BaseURLs]
    /\ goSchema \in SUBSET Keys
    /\ goMessages \in MessageLists
    /\ goRequest = [messages |-> <<>>, response_format |-> "none"]
    /\ goResponse = [choices |-> FALSE]
    /\ goOutcome = [kind |-> "called"]

NextGenerate ==
    \/ SendRequest /\ UNCHANGED <<searchVars, streamVars, objVars>>
    \/ ResponseArrives /\ UNCHANGED <<searchVars, streamVars, objVars>>

SpecGenerate == InitGenerate /\ [][NextGenerate]_vars

(***************************************************************************)
(*                   Properties of caption_search execute                  *)
(***************************************************************************)

\* The remote call of a finished call failed: endpoint unconfigured, transport
\* failure, non-success status, a body that does not parse, or a body without
\* the shape the mapping reads (no results array, a hit without folderName).
RemoteFailed(r) ==
    \/ r.kind \in {"unconfigured", "transport", "status"}
    \/ /\ r.kind = "ok"
       /\ \/ r.body.kind # "object"
          \/ \E i \in 1..Len(r.body.results) : r.body.results[i].folderName = Undefined

\* The entries the block held before the calls, and those the calls appended.
EarlierSteps  == SelectSeq(subSteps, LAMBDA e : e.by = 0)
AppendedSteps == SelectSeq(subSteps, LAMBDA e : e.by # 0)

C2_AlwaysTwoEntries ==
    (blockKind = "research" /\ pc[1] = "done" /\ remote[1].kind # "unconfigured") =>
        /\ Len(AppendedSteps) = 2
        /\ AppendedSteps[1].type = "searching"
        /\ AppendedSteps[2].type = "search_results"
        /\ Len(patches) = 2

\* Whether patch k is a replace of /data/subSteps by the first n entries of
\* the list.
IsReplaceOfFirst(k, n) ==
    /\ patches[k].op = "replace"
    /\ patches[k].path = "/data/subSteps"
    /\ patches[k].value = SubSeq(subSteps, 1, n)

\* C2, amended: given a research block, an invocation whose remote call
\* succeeds appends exactly two entries after the earlier ones, 'searching'
\* then 'search_results' (reading the returned chunks); one whose remote call
\* fails appends the 'searching' entry alone; one with the endpoint
\* unconfigured appends nothing. Each append is followed by one replace patch
\* on /data/subSteps whose value is the list including the new entry.
C2_EntriesByOutcome ==
    (blockKind = "research" /\ pc[1] = "done") =>
        LET n0 == Len(EarlierSteps) IN
        /\ SubSeq(subSteps, 1, n0) = EarlierSteps
        /\ Len(patches) = Len(AppendedSteps)
        /\ \A k \in 1..Len(patches) : IsReplaceOfFirst(k, n0 + k)
        /\ IF remote[1].kind = "unconfigured" THEN AppendedSteps = <<>>
           ELSE IF RemoteFailed(remote[1])
           THEN /\ Len(AppendedSteps) = 1
                /\ AppendedSteps[1].type = "searching"
           ELSE /\ Len(AppendedSteps) = 2
                /\ AppendedSteps[1].type = "searching"
                /\ AppendedSteps[2].type = "search_results"
                /\ AppendedSteps[2].reading = ret[1].results

\* A successful call on a research block that already held an entry.
C2_Witness ==
    /\ blockKind = "research" /\ pc[1] = "done"
    /\ ~RemoteFailed(remote[1])
    /\ Len(EarlierSteps) = 1
    /\ Len(subSteps) = 3
    /\ Len(ret[1].results) = 1

\* The title the claim gives for a folder name: "CraftyPanda: " and then the
\* name with a space wherever it has an underscore.
IsTitleOf(title, folderName) ==
    /\ Len(title) = 1 + Len(folderName)
    /\ title[1] = "CraftyPanda: "
    /\ \A i \in 1..Len(folderName) :
          title[i + 1] = IF folderName[i] = "_" THEN " " ELSE folderName[i]

\* C3: for a successful response with N hits execute returns N chunks in the
\* order of the hits, chunk k with the title "CraftyPanda: " + folderName
\* (underscores as spaces) and the url "craftypanda://caption/" + id of hit k.
C3_ChunksMirrorHits ==
    (pc[1] = "done" /\ ~RemoteFailed(remote[1])) =>
        LET hits == remote[1].body.results
            chunks == ret[1].results
        IN /\ Len(chunks) = Len(hits)
           /\ \A k \in 1..Len(hits) :
                 /\ IsTitleOf(chunks[k].metadata.title, hits[k].folderName)
                 /\ chunks[k].metadata.url = <<"craftypanda://caption/", hits[k].id>>
                 /\ chunks[k].content = hits[k].content

\* Two hits came back, the first with two underscores in its folder name.
C3_Witness ==
    /\ pc[1] = "done" /\ ~RemoteFailed(remote[1])
    /\ Len(ret[1].results) = 2
    /\ remote[1].body.results[1].folderName = <<"_", "_">>
    /\ remote[1].body.results[1].id # remote[1].body.results[2].id

\* The entries call p appended, in the order they sit in the list.
StepsBy(p) == SelectSeq(subSteps, LAMBDA e : e.by = p)

\* C10: overlapping calls on one research block lose and reorder nothing: the
\* earlier entries keep their positions, every call's entries are all there
\* with its 'searching' before its 'search_results', and patch k carries the
\* full list of the entries appended so far.
C10_NoLostSubStep ==
    blockKind = "research" =>
        LET n0 == Len(EarlierSteps) IN
        /\ SubSeq(subSteps, 1, n0) = EarlierSteps
        /\ Len(patches) = Len(AppendedSteps)
        /\ \A k \in 1..Len(patches) : IsReplaceOfFirst(k, n0 + k)
        /\ \A p \in DOMAIN pc :
              Len(StepsBy(p)) =
                 IF pc[p] = "start" \/ remote[p].kind = "unconfigured" THEN 0
                 ELSE IF pc[p] = "done" /\ ~RemoteFailed(remote[p]) THEN 2
                 ELSE 1
        /\ \A p \in DOMAIN pc :
              /\ Len(StepsBy(p)) >= 1 => StepsBy(p)[1].type = "searching"
              /\ Len(StepsBy(p)) >= 2 =>
                    /\ StepsBy(p)[2].type = "search_results"
                    /\ StepsBy(p)[2].reading = ret[p].results

\* Two calls overlapped and both succeeded: call 2 started and finished while
\* call 1 was waiting.
C10_Witness ==
    /\ blockKind = "research"
    /\ \A p \in DOMAIN pc : pc[p] = "done" /\ ~RemoteFailed(remote[p])
    /\ Len(EarlierSteps) = 1
    /\ Len(subSteps) = 1 + 2 * NCalls
    /\ subSteps[2].by = 1 /\ subSteps[3].by = 2 /\ subSteps[4].by = 2

(***************************************************************************)
(*                        Properties of streamText                         *)
(***************************************************************************)

\* The consumed chunks that have choices: the ones an update is yielded for.
ChoiceChunks == SelectSeq(consumed, LAMBDA c : c.choices)

\* The tool-call deltas of a sequence of chunks, in arrival order.
RECURSIVE AllDeltas(_)
AllDeltas(chunks) ==
    IF chunks = <<>> THEN <<>>
    ELSE Head(chunks).tool_calls \o AllDeltas(Tail(chunks))

\* The concatenation, in arrival order, of the fragments of the deltas with
\* index i.
RECURSIVE ConcatFor(_, _)
ConcatFor(i, deltas) ==
    IF deltas = <<>> THEN <<>>
    ELSE (IF Head(deltas).index = i THEN Head(deltas).arguments ELSE <<>>)
         \o ConcatFor(i, Tail(deltas))

\* What an update shows for argument text: its parse, the empty object when
\* there is no text or the text does not parse.
ParsedOrEmpty(text) ==
    IF text = <<>> \/ Parse(text) = ParseError THEN EmptyObj ELSE Parse(text)

\* C4: tool-call argument text is accumulated per position index: after a chunk
\* with a delta of index i, the text held for call i is the concatenation of
\* all fragments seen so far with index i and of no other, and the entry of
\* each delta in that chunk's update is the parse of that concatenation.
C4_AccumulatesPerIndex ==
    LET cs == ChoiceChunks IN
    /\ \A i \in Indexes :
          (\E k \in 1..Len(AllDeltas(cs)) : AllDeltas(cs)[k].index = i) =>
              /\ Has(recievedToolCalls, i)
              /\ recievedToolCalls[i + 1].arguments = ConcatFor(i, AllDeltas(cs))
    /\ \A n \in 1..Len(yielded) :
          \A k \in 1..Len(cs[n].tool_calls) :
              LET soFar == AllDeltas(SubSeq(cs, 1, n - 1))
                              \o SubSeq(cs[n].tool_calls, 1, k)
                  text == ConcatFor(cs[n].tool_calls[k].index, soFar)
              IN /\ k <= Len(yielded[n].toolCallChunk)
                 /\ yielded[n].toolCallChunk[k].arguments = ParsedOrEmpty(text)

\* C5, as stated: once an update with done = true has been yielded no further
\* update is yielded, so only the last update can have done = true.
C5_DoneIsLast ==
    \A n \in 1..(Len(yielded) - 1) : ~yielded[n].done

\* C5, amended: streamText yields one update per upstream chunk that has
\* choices, with done = true exactly when that chunk's finish reason is not
\* null, and it ends only when the upstream stream ends; an update with
\* done = true is the last one only if no chunk with choices follows upstream.
C5_EndsWithUpstream ==
    /\ stPc = "returned" => ~streamOpen
    /\ Len(yielded) = Len(ChoiceChunks)
    /\ \A n \in 1..Len(yielded) :
          yielded[n].done = (ChoiceChunks[n].finish_reason # Null)

\* An update with done = true was followed by another update.
C5_Witness ==
    /\ Len(yielded) = 2
    /\ yielded[1].done /\ ~yielded[2].done
    /\ stPc = "returned"

\* C9: malformed argument text never aborts the stream: the update of the
\* chunk is yielded all the same, with an entry per delta, the entry of a call
\* whose text did not parse having the empty object as arguments, and the
\* later chunks are still consumed and yielded.
C9_MalformedTolerated ==
    /\ stPc # "thrown"
    /\ Len(yielded) = Len(ChoiceChunks)
    /\ \A n \in 1..Len(yielded) :
          /\ Len(yielded[n].toolCallChunk) = Len(ChoiceChunks[n].tool_calls)
          /\ \A k \in 1..Len(yielded[n].toolCallChunk) :
                Parse(yielded[n].toolCallChunk[k].text) = ParseError =>
                    yielded[n].toolCallChunk[k].arguments = EmptyObj

\* The first chunk had two deltas, the first with text that does not parse and
\* the second with text that does, and a later chunk was yielded after it.
C9_Witness ==
    /\ Len(yielded) = 2
    /\ Len(yielded[1].toolCallChunk) = 2
    /\ Parse(yielded[1].toolCallChunk[1].text) = ParseError
    /\ yielded[1].toolCallChunk[1].arguments = EmptyObj
    /\ yielded[1].toolCallChunk[2].arguments = {"a:1"}
    /\ Len(yielded[2].toolCallChunk) = 1

(***************************************************************************)
(*                       Properties of streamObject                        *)
(***************************************************************************)

Last(seq) == seq[Len(seq)]

\* C7: a parse failure on a delta never aborts the sequence: the accumulated
\* text grows by the delta, exactly one value is yielded for it (the empty
\* object on a parse failure) and consumption goes on; a parse failure on the
\* output_text.done event is raised to the consumer and yields nothing.
C7_DeltaToleratedDoneFatal ==
    [][soConsumed' # soConsumed =>
          LET e == Last(soConsumed') IN
          /\ IsDelta(e) =>
                /\ recievedObj' = recievedObj \o e.delta
                /\ Len(soYielded') = Len(soYielded) + 1
                /\ SubSeq(soYielded', 1, Len(soYielded)) = soYielded
                /\ Last(soYielded').value = ParsedOrEmpty(recievedObj')
                /\ soPc' = "iterating"
          /\ (IsDone(e) /\ Parse(e.text) = ParseError) =>
                /\ soPc' = "thrown"
                /\ soYielded' = soYielded]_vars

\* A delta whose text did not parse yielded the empty object, a later delta was
\* still consumed, and then a done event whose text did not parse was fatal.
C7_Witness ==
    /\ Len(soConsumed) = 3
    /\ IsDelta(soConsumed[1]) /\ Parse(soConsumed[1].delta) = ParseError
    /\ IsDelta(soConsumed[2])
    /\ Len(soYielded) = 2
    /\ soYielded[1].value = EmptyObj
    /\ soPc = "thrown"

(***************************************************************************)
(*                  The state machine of the two streams                   *)
(***************************************************************************)

\* C8, as stated: the terminal update (done = true, respectively the value of
\* output_text.done) is never produced without an earlier accumulating update.
C8_NeverSkipsAccumulation ==
    /\ \A n \in 1..Len(yielded) :
          yielded[n].done => \E m \in 1..(n - 1) : ~yielded[m].done
    /\ \A n \in 1..Len(soYielded) :
          soYielded[n].from = "done" =>
              \E m \in 1..(n - 1) : soYielded[m].from = "delta"

\* The events streamObject yields a value for.
YieldingEvents ==
    SelectSeq(soConsumed,
              LAMBDA e : IsDelta(e) \/ (IsDone(e) /\ Parse(e.text) # ParseError))

\* C8, amended: the terminal update is produced only on the upstream's
\* explicit finished marker: an update of streamText has done = true only for
\* a chunk whose finish reason is not null, and streamObject yields the value
\* of a whole text only for an output_text.done event with that text. An
\* accumulating update need not come first: the first update can be terminal.
C8_TerminalOnlyOnMarker ==
    /\ Len(yielded) <= Len(ChoiceChunks)
    /\ \A n \in 1..Len(yielded) :
          yielded[n].done => ChoiceChunks[n].finish_reason # Null
    /\ Len(soYielded) = Len(YieldingEvents)
    /\ \A n \in 1..Len(soYielded) :
          (soYielded[n].from = "done") = IsDone(YieldingEvents[n])
    /\ \A n \in 1..Len(soYielded) :
          IsDone(YieldingEvents[n]) =>
              soYielded[n].value = Parse(YieldingEvents[n].text)

\* The first update streamText yielded was the terminal one.
C8_Witness ==
    /\ Len(yielded) = 1
    /\ yielded[1].done
    /\ stPc = "returned"

(***************************************************************************)
(*                      Properties of generateObject                       *)
(***************************************************************************)

\* The configurations the claim calls degraded: a base URL containing 'groq',
\* or a model name starting with 'groq/' or 'openrouter/'.
Degraded(config) ==
    \/ config.baseURL = "https://api.groq.com/openai/v1"
    \/ config.model \in {"groq/llama", "openrouter/auto"}

\* generateObject has finished on a response whose parsed object violates
\* the schema.
ViolatesSchema ==
    /\ goOutcome.kind \in {"value", "error"}
    /\ goResponse.choices
    /\ "object" \in DOMAIN goResponse.content
    /\ ~(goSchema \subseteq goResponse.content.object)

=============================================================================
